---- MODULE Spec2Model ----
(***************************************************************************)
(* Model of lightning/common/util.go: the retrying SQL helpers             *)
(* ExecWithRetry / executeSQLImp / QueryRowWithRetry and the error         *)
(* classifier isRetryableError.  The database handle (database/sql) is the *)
(* environment: every call on it either succeeds or fails with an error    *)
(* chosen nondeterministically.                                            *)
(***************************************************************************)
EXTENDS Integers, Sequences, FiniteSets, TLC

VARIABLES pc, call, sqls, query, i, err, xerr, idx, txn, ret, dest, ctxDone, log, txns, visible, clsIn, clsOut

vars == <<pc, call, sqls, query, i, err, xerr, idx, txn, ret, dest, ctxDone, log, txns, visible, clsIn, clsOut>>

(* ------------------------------ bounds --------------------------------- *)

\* longest statement batch passed to ExecWithRetry
MaxBatch == 2

\* deepest nesting of errors.Trace around an error handed to the classifier
MaxWrap == 2

(* -------------------------- program constants -------------------------- *)

\* retryTimeout = 3 * time.Second, in seconds
retryTimeout == 3

defaultMaxRetry == 3

\* github.com/pingcap/tidb/mysql error numbers named by isRetryableError
ErrUnknown == 1105
ErrLockDeadlock == 1213
ErrPDServerTimeout == 9001
ErrTiKVServerTimeout == 9002
ErrTiKVServerBusy == 9003
ErrResolveLockTimeout == 9004
ErrRegionUnavailable == 9005

(* ------------------------------- errors -------------------------------- *)

\* Concrete shapes of an error value as isRetryableError distinguishes them:
\* the driver.ErrBadConn sentinel, a net.Error, a *mysql.MySQLError, a
\* context error, and any other error type.
Shapes == {"badconn", "net", "mysql", "ctx", "other"}

\* An error value.  op/att/stmt say which call produced it (its identity);
\* depth counts the errors.Trace wrappers around it.
MkErr(shape, timeout, number, op, att, stmt) ==
    [shape |-> shape, timeout |-> timeout, number |-> number,
     op |-> op, att |-> att, stmt |-> stmt, depth |-> 0]

\* the nil error
NoErr == MkErr("nil", FALSE, 0, "none", 0, 0)

\* errors.Trace(err): nil stays nil, otherwise one more wrapper
Trace(e) == IF e = NoErr THEN NoErr ELSE [e EXCEPT !.depth = @ + 1]

\* errors.Cause(err): the innermost error under the wrappers
Cause(e) == [e EXCEPT !.depth = 0]

\* err.Error(): the message, which for a traced error is the cause's message
ErrorText(e) == <<e.shape, e.timeout, e.number, e.op, e.att, e.stmt>>

TransientCodes ==
    {ErrUnknown, ErrLockDeadlock, ErrPDServerTimeout, ErrTiKVServerTimeout,
     ErrTiKVServerBusy, ErrResolveLockTimeout, ErrRegionUnavailable}

\* isRetryableError with the network rule falling through when there is no timeout
isRetryableError_netFallsThrough(e) ==
    LET c == Cause(e) IN
    IF c.shape = "badconn" THEN TRUE
    ELSE IF c.shape = "net" /\ c.timeout THEN TRUE
    ELSE IF c.shape = "mysql" THEN c.number \in TransientCodes
    ELSE TRUE

\* isRetryableError with ErrRegionUnavailable missing from the case list
isRetryableError_missingCode(e) ==
    LET c == Cause(e) IN
    IF c.shape = "badconn" THEN TRUE
    ELSE IF c.shape = "net" THEN c.timeout
    ELSE IF c.shape = "mysql" THEN c.number \in TransientCodes \ {ErrRegionUnavailable}
    ELSE TRUE

isRetryableError(e) ==
    LET c == Cause(e) IN
    IF c.shape = "badconn" THEN TRUE
    ELSE IF c.shape = "net" THEN c.timeout
    ELSE IF c.shape = "mysql" THEN c.number \in TransientCodes
    ELSE TRUE

(* ----------------------------- environment ----------------------------- *)

Procs == {1, 2}

\* the invocation followed by the sequential specification
Main == 1

Sqls == {"s1", "s2"}

Queries == {"q1"}

Rows == {"r1", "r2"}

NoRow == "none"

RECURSIVE SeqsUpTo(_, _)
SeqsUpTo(S, n) ==
    IF n = 0 THEN {<<>>}
    ELSE LET shorter == SeqsUpTo(S, n - 1) IN
         shorter \cup {Append(s, x) : s \in {t \in shorter : Len(t) = n - 1}, x \in S}

Batches == SeqsUpTo(Sqls, MaxBatch)

\* error kinds the database handle may answer with: <<shape, timeout, number>>
ErrKinds ==
    {<<"badconn", FALSE, 0>>, <<"net", FALSE, 0>>,
     <<"mysql", FALSE, ErrLockDeadlock>>, <<"mysql", FALSE, 1062>>}

\* error kinds Rollback may answer with (a lost connection, sql.ErrTxDone)
RollbackErrKinds == {<<"badconn", FALSE, 0>>, <<"other", FALSE, 0>>}

\* context.Canceled, returned by calls that take a done context
CtxKind == <<"ctx", FALSE, 0>>

\* outcomes of a call that takes the context: "ok", or an error kind
CtxOutcomes(p) == IF ctxDone[p] THEN {CtxKind} ELSE {<<"ok", FALSE, 0>>} \cup ErrKinds

\* outcomes of Commit and of Rollback, which take no context
CommitOutcomes == {<<"ok", FALSE, 0>>} \cup ErrKinds

RollbackOutcomes == {<<"ok", FALSE, 0>>} \cup RollbackErrKinds

ErrOf(k, op, att, stmt) == MkErr(k[1], k[2], k[3], op, att, stmt)

IsOk(k) == k[1] = "ok"

(* ------------------------------- logging ------------------------------- *)

\* one entry of an invocation's trace: a log line, a sleep or a database call.
\* att is the loop counter i at that point, arg the statement index (or the
\* sleep's duration), id the transaction the call was made on, e the error
\* the call returned or the line reports (NoErr when there is none).
Event(ev, att, arg, id, e) == [ev |-> ev, att |-> att, arg |-> arg, id |-> id, e |-> e]

(* ------------------------------- state --------------------------------- *)

\* What a call returned: tag "none" while it runs, "nil" for success, "trace"
\* for errors.Trace(err) (err is the wrapped error), "errorf" for a fresh
\* errors.Errorf error (text and cause are what its message is formatted from).
NoRet == [tag |-> "none", err |-> NoErr, text |-> <<>>, cause |-> ErrorText(NoErr)]

RetNil == [NoRet EXCEPT !.tag = "nil"]

RetTrace(e) == [NoRet EXCEPT !.tag = "trace", !.err = Trace(e)]

\* errors.Errorf("exec sqls [%v] failed, err:%s", sqls, err.Error())
RetExecFailed(batch, e) == [NoRet EXCEPT !.tag = "errorf", !.text = batch, !.cause = ErrorText(e)]

\* errors.Errorf("query sql [%s] failed", query)
RetQueryFailed(q) == [NoRet EXCEPT !.tag = "errorf", !.text = <<q>>]

\* no invocation has started, the database holds nothing
InitCalls ==
    /\ pc = [p \in Procs |-> "idle"]
    /\ call = [p \in Procs |-> "none"]
    /\ sqls = [p \in Procs |-> <<>>]
    /\ query = [p \in Procs |-> ""]
    /\ i = [p \in Procs |-> 0]
    /\ err = [p \in Procs |-> NoErr]
    /\ xerr = [p \in Procs |-> NoErr]
    /\ idx = [p \in Procs |-> 0]
    /\ txn = [p \in Procs |-> 0]
    /\ ret = [p \in Procs |-> NoRet]
    /\ dest = [p \in Procs |-> NoRow]
    /\ ctxDone = [p \in Procs |-> FALSE]
    /\ log = [p \in Procs |-> <<>>]
    /\ txns = <<>>
    /\ visible = {}

Init ==
    /\ InitCalls
    /\ clsIn = NoErr
    /\ clsOut = "none"

(* --------------------------- ExecWithRetry ----------------------------- *)

\* ExecWithRetry without the len(sqls) == 0 check
CallExec_noEmptyCheck(p, batch) ==
    /\ pc[p] = "idle"
    /\ call' = [call EXCEPT ![p] = "ExecWithRetry"]
    /\ sqls' = [sqls EXCEPT ![p] = batch]
    /\ pc' = [pc EXCEPT ![p] = "loop"]
    /\ UNCHANGED <<query, i, err, xerr, idx, txn, ret, dest, ctxDone, log, txns, visible, clsIn, clsOut>>

\* ExecWithRetry entry: the empty batch returns nil at once
CallExec(p, batch) ==
    /\ pc[p] = "idle"
    /\ call' = [call EXCEPT ![p] = "ExecWithRetry"]
    /\ sqls' = [sqls EXCEPT ![p] = batch]
    /\ IF Len(batch) = 0
       THEN /\ ret' = [ret EXCEPT ![p] = RetNil]
            /\ pc' = [pc EXCEPT ![p] = "done"]
       ELSE /\ pc' = [pc EXCEPT ![p] = "loop"]
            /\ ret' = ret
    /\ UNCHANGED <<query, i, err, xerr, idx, txn, dest, ctxDone, log, txns, visible, clsIn, clsOut>>

\* the retry loop with the bound check i <= maxRetry
ExecLoop_offByOne(p) ==
    /\ pc[p] = "loop"
    /\ IF i[p] <= defaultMaxRetry
       THEN /\ log' = [log EXCEPT ![p] =
                  IF i[p] > 0
                  THEN @ \o <<Event("warn:retry", i[p], 0, 0, NoErr),
                              Event("sleep", i[p], retryTimeout, 0, NoErr)>>
                  ELSE @]
            /\ pc' = [pc EXCEPT ![p] = "begin"]
            /\ ret' = ret
       ELSE /\ ret' = [ret EXCEPT ![p] = RetExecFailed(sqls[p], err[p])]
            /\ pc' = [pc EXCEPT ![p] = "done"]
            /\ log' = log
    /\ UNCHANGED <<call, sqls, query, i, err, xerr, idx, txn, dest, ctxDone, txns, visible, clsIn, clsOut>>

\* the retry loop sleeping before it logs the retry warning
ExecLoop_sleepThenWarn(p) ==
    /\ pc[p] = "loop"
    /\ IF i[p] < defaultMaxRetry
       THEN /\ log' = [log EXCEPT ![p] =
                  IF i[p] > 0
                  THEN @ \o <<Event("sleep", i[p], retryTimeout, 0, NoErr),
                              Event("warn:retry", i[p], 0, 0, NoErr)>>
                  ELSE @]
            /\ pc' = [pc EXCEPT ![p] = "begin"]
            /\ ret' = ret
       ELSE IF err[p] = NoErr
       THEN /\ pc' = [pc EXCEPT ![p] = "panic"]
            /\ ret' = ret
            /\ log' = log
       ELSE /\ ret' = [ret EXCEPT ![p] = RetExecFailed(sqls[p], err[p])]
            /\ pc' = [pc EXCEPT ![p] = "done"]
            /\ log' = log
    /\ UNCHANGED <<call, sqls, query, i, err, xerr, idx, txn, dest, ctxDone, txns, visible, clsIn, clsOut>>

\* head of the retry loop: the bound check, then for i > 0 the warning and
\* the sleep; after the loop the retry-exhausted error, whose err.Error()
\* is a nil dereference (pc "panic") when err is nil
ExecLoop(p) ==
    /\ pc[p] = "loop"
    /\ IF i[p] < defaultMaxRetry
       THEN /\ log' = [log EXCEPT ![p] =
                  IF i[p] > 0
                  THEN @ \o <<Event("warn:retry", i[p], 0, 0, NoErr),
                              Event("sleep", i[p], retryTimeout, 0, NoErr)>>
                  ELSE @]
            /\ pc' = [pc EXCEPT ![p] = "begin"]
            /\ ret' = ret
       ELSE IF err[p] = NoErr
       THEN /\ pc' = [pc EXCEPT ![p] = "panic"]
            /\ ret' = ret
            /\ log' = log
       ELSE /\ ret' = [ret EXCEPT ![p] = RetExecFailed(sqls[p], err[p])]
            /\ pc' = [pc EXCEPT ![p] = "done"]
            /\ log' = log
    /\ UNCHANGED <<call, sqls, query, i, err, xerr, idx, txn, dest, ctxDone, txns, visible, clsIn, clsOut>>

\* ExecWithRetry retrying whatever the classifier answers
AttemptReturn_alwaysRetry(p, e, lg) ==
    /\ err' = [err EXCEPT ![p] = e]
    /\ IF e # NoErr
       THEN /\ i' = [i EXCEPT ![p] = @ + 1]
            /\ pc' = [pc EXCEPT ![p] = "loop"]
            /\ log' = [log EXCEPT ![p] = lg]
            /\ ret' = ret
       ELSE /\ ret' = [ret EXCEPT ![p] = RetNil]
            /\ pc' = [pc EXCEPT ![p] = "done"]
            /\ log' = [log EXCEPT ![p] = lg]
            /\ i' = i

\* ExecWithRetry keeping the first attempt's error in err
AttemptReturn_keepsFirstErr(p, e, lg) ==
    /\ err' = [err EXCEPT ![p] = IF @ = NoErr THEN e ELSE @]
    /\ IF e # NoErr
       THEN IF isRetryableError(e)
            THEN /\ i' = [i EXCEPT ![p] = @ + 1]
                 /\ pc' = [pc EXCEPT ![p] = "loop"]
                 /\ log' = [log EXCEPT ![p] = lg]
                 /\ ret' = ret
            ELSE /\ log' = [log EXCEPT ![p] = Append(lg, Event("error:exec", i[p], 0, 0, e))]
                 /\ ret' = [ret EXCEPT ![p] = RetTrace(e)]
                 /\ pc' = [pc EXCEPT ![p] = "done"]
                 /\ i' = i
       ELSE /\ ret' = [ret EXCEPT ![p] = RetNil]
            /\ pc' = [pc EXCEPT ![p] = "done"]
            /\ log' = [log EXCEPT ![p] = lg]
            /\ i' = i

\* ExecWithRetry with the attempt's error in a new variable of the if
\* statement (if err := executeSQLImp(...)), the outer err staying nil
AttemptReturn_shadowsErr(p, e, lg) ==
    /\ err' = err
    /\ IF e # NoErr
       THEN IF isRetryableError(e)
            THEN /\ i' = [i EXCEPT ![p] = @ + 1]
                 /\ pc' = [pc EXCEPT ![p] = "loop"]
                 /\ log' = [log EXCEPT ![p] = lg]
                 /\ ret' = ret
            ELSE /\ log' = [log EXCEPT ![p] = Append(lg, Event("error:exec", i[p], 0, 0, e))]
                 /\ ret' = [ret EXCEPT ![p] = RetTrace(e)]
                 /\ pc' = [pc EXCEPT ![p] = "done"]
                 /\ i' = i
       ELSE /\ ret' = [ret EXCEPT ![p] = RetNil]
            /\ pc' = [pc EXCEPT ![p] = "done"]
            /\ log' = [log EXCEPT ![p] = lg]
            /\ i' = i

\* what ExecWithRetry does with the value e returned by executeSQLImp, lg
\* being the invocation's trace up to that return
AttemptReturn(p, e, lg) ==
    /\ err' = [err EXCEPT ![p] = e]
    /\ IF e # NoErr
       THEN IF isRetryableError(e)
            THEN /\ i' = [i EXCEPT ![p] = @ + 1]
                 /\ pc' = [pc EXCEPT ![p] = "loop"]
                 /\ log' = [log EXCEPT ![p] = lg]
                 /\ ret' = ret
            ELSE /\ log' = [log EXCEPT ![p] = Append(lg, Event("error:exec", i[p], 0, 0, e))]
                 /\ ret' = [ret EXCEPT ![p] = RetTrace(e)]
                 /\ pc' = [pc EXCEPT ![p] = "done"]
                 /\ i' = i
       ELSE /\ ret' = [ret EXCEPT ![p] = RetNil]
            /\ pc' = [pc EXCEPT ![p] = "done"]
            /\ log' = [log EXCEPT ![p] = lg]
            /\ i' = i

\* executeSQLImp keeping the transaction in a variable that all invocations
\* share instead of a local one
BeginTx_sharedHandle(p) ==
    /\ pc[p] = "begin"
    /\ \E o \in CtxOutcomes(p) :
         LET e  == IF IsOk(o) THEN NoErr ELSE ErrOf(o, "begin", i[p], 0)
             lg == Append(log[p], Event("BeginTx", i[p], 0, 0, e)) IN
         IF IsOk(o)
         THEN /\ txns' = Append(txns, [owner |-> p, att |-> i[p], state |-> "open", pending |-> {}])
              /\ txn' = [q \in Procs |-> Len(txns) + 1]
              /\ idx' = [idx EXCEPT ![p] = 1]
              /\ pc' = [pc EXCEPT ![p] = "exec"]
              /\ log' = [log EXCEPT ![p] = lg]
              /\ UNCHANGED <<i, err, ret>>
         ELSE /\ AttemptReturn(p, Trace(e), Append(lg, Event("error:begin", i[p], 0, 0, e)))
              /\ UNCHANGED <<txns, txn, idx>>
    /\ UNCHANGED <<call, sqls, query, xerr, dest, ctxDone, visible, clsIn, clsOut>>

\* ExecWithRetry returning every begin error at once, Transient or not
BeginTx_failureIsFatal(p) ==
    /\ pc[p] = "begin"
    /\ \E o \in CtxOutcomes(p) :
         LET e  == IF IsOk(o) THEN NoErr ELSE ErrOf(o, "begin", i[p], 0)
             lg == Append(log[p], Event("BeginTx", i[p], 0, 0, e)) IN
         IF IsOk(o)
         THEN /\ txns' = Append(txns, [owner |-> p, att |-> i[p], state |-> "open", pending |-> {}])
              /\ txn' = [txn EXCEPT ![p] = Len(txns) + 1]
              /\ idx' = [idx EXCEPT ![p] = 1]
              /\ pc' = [pc EXCEPT ![p] = "exec"]
              /\ log' = [log EXCEPT ![p] = lg]
              /\ UNCHANGED <<i, err, ret>>
         ELSE /\ err' = [err EXCEPT ![p] = Trace(e)]
              /\ log' = [log EXCEPT ![p] = lg \o <<Event("error:begin", i[p], 0, 0, e),
                                                   Event("error:exec", i[p], 0, 0, Trace(e))>>]
              /\ ret' = [ret EXCEPT ![p] = RetTrace(Trace(e))]
              /\ pc' = [pc EXCEPT ![p] = "done"]
              /\ UNCHANGED <<i, txns, txn, idx>>
    /\ UNCHANGED <<call, sqls, query, xerr, dest, ctxDone, visible, clsIn, clsOut>>

\* executeSQLImp: db.BeginTx
BeginTx(p) ==
    /\ pc[p] = "begin"
    /\ \E o \in CtxOutcomes(p) :
         LET e  == IF IsOk(o) THEN NoErr ELSE ErrOf(o, "begin", i[p], 0)
             lg == Append(log[p], Event("BeginTx", i[p], 0, 0, e)) IN
         IF IsOk(o)
         THEN /\ txns' = Append(txns, [owner |-> p, att |-> i[p], state |-> "open", pending |-> {}])
              /\ txn' = [txn EXCEPT ![p] = Len(txns) + 1]
              /\ idx' = [idx EXCEPT ![p] = 1]
              /\ pc' = [pc EXCEPT ![p] = "exec"]
              /\ log' = [log EXCEPT ![p] = lg]
              /\ UNCHANGED <<i, err, ret>>
         ELSE /\ AttemptReturn(p, Trace(e), Append(lg, Event("error:begin", i[p], 0, 0, e)))
              /\ UNCHANGED <<txns, txn, idx>>
    /\ UNCHANGED <<call, sqls, query, xerr, dest, ctxDone, visible, clsIn, clsOut>>

\* the statement loop running each statement on db instead of txn, so that
\* it takes effect at once
ExecStmt_autocommit(p) ==
    /\ pc[p] = "exec"
    /\ \E o \in CtxOutcomes(p) :
         LET e  == IF IsOk(o) THEN NoErr ELSE ErrOf(o, "exec", i[p], idx[p])
             lg == log[p] \o <<Event("debug:sql", i[p], idx[p], 0, NoErr),
                                Event("ExecContext", i[p], idx[p], txn[p], e)>> IN
         IF IsOk(o)
         THEN /\ visible' = visible \cup {<<p, i[p], idx[p]>>}
              /\ log' = [log EXCEPT ![p] = lg]
              /\ xerr' = xerr
              /\ IF idx[p] < Len(sqls[p])
                 THEN /\ idx' = [idx EXCEPT ![p] = @ + 1]
                      /\ pc' = pc
                 ELSE /\ pc' = [pc EXCEPT ![p] = "commit"]
                      /\ idx' = idx
         ELSE /\ xerr' = [xerr EXCEPT ![p] = e]
              /\ log' = [log EXCEPT ![p] = Append(lg, Event("warn:sql", i[p], idx[p], 0, e))]
              /\ pc' = [pc EXCEPT ![p] = "rollback"]
              /\ UNCHANGED <<visible, idx>>
    /\ UNCHANGED <<call, sqls, query, i, err, txn, ret, dest, ctxDone, txns, clsIn, clsOut>>

\* the statement loop going on to the next statement after a failed one
ExecStmt_continuesAfterError(p) ==
    /\ pc[p] = "exec"
    /\ \E o \in CtxOutcomes(p) :
         LET e  == IF IsOk(o) THEN NoErr ELSE ErrOf(o, "exec", i[p], idx[p])
             lg == log[p] \o <<Event("debug:sql", i[p], idx[p], 0, NoErr),
                                Event("ExecContext", i[p], idx[p], txn[p], e)>> IN
         /\ txns' = IF IsOk(o) THEN [txns EXCEPT ![txn[p]].pending = @ \cup {idx[p]}] ELSE txns
         /\ log' = [log EXCEPT ![p] = lg]
         /\ xerr' = xerr
         /\ IF idx[p] < Len(sqls[p])
            THEN /\ idx' = [idx EXCEPT ![p] = @ + 1]
                 /\ pc' = pc
            ELSE /\ pc' = [pc EXCEPT ![p] = "commit"]
                 /\ idx' = idx
    /\ UNCHANGED <<call, sqls, query, i, err, txn, ret, dest, ctxDone, visible, clsIn, clsOut>>

\* executeSQLImp leaving its loop one statement early
ExecStmt_skipsLast(p) ==
    /\ pc[p] = "exec"
    /\ \E o \in CtxOutcomes(p) :
         LET e  == IF IsOk(o) THEN NoErr ELSE ErrOf(o, "exec", i[p], idx[p])
             lg == log[p] \o <<Event("debug:sql", i[p], idx[p], 0, NoErr),
                                Event("ExecContext", i[p], idx[p], txn[p], e)>> IN
         IF IsOk(o)
         THEN /\ txns' = [txns EXCEPT ![txn[p]].pending = @ \cup {idx[p]}]
              /\ log' = [log EXCEPT ![p] = lg]
              /\ xerr' = xerr
              /\ IF idx[p] + 1 < Len(sqls[p])
                 THEN /\ idx' = [idx EXCEPT ![p] = @ + 1]
                      /\ pc' = pc
                 ELSE /\ pc' = [pc EXCEPT ![p] = "commit"]
                      /\ idx' = idx
         ELSE /\ xerr' = [xerr EXCEPT ![p] = e]
              /\ log' = [log EXCEPT ![p] = Append(lg, Event("warn:sql", i[p], idx[p], 0, e))]
              /\ pc' = [pc EXCEPT ![p] = "rollback"]
              /\ UNCHANGED <<txns, idx>>
    /\ UNCHANGED <<call, sqls, query, i, err, txn, ret, dest, ctxDone, visible, clsIn, clsOut>>

\* executeSQLImp: one turn of the statement loop, txn.ExecContext(sqls[i])
ExecStmt(p) ==
    /\ pc[p] = "exec"
    /\ \E o \in CtxOutcomes(p) :
         LET e  == IF IsOk(o) THEN NoErr ELSE ErrOf(o, "exec", i[p], idx[p])
             lg == log[p] \o <<Event("debug:sql", i[p], idx[p], 0, NoErr),
                                Event("ExecContext", i[p], idx[p], txn[p], e)>> IN
         IF IsOk(o)
         THEN /\ txns' = [txns EXCEPT ![txn[p]].pending = @ \cup {idx[p]}]
              /\ log' = [log EXCEPT ![p] = lg]
              /\ xerr' = xerr
              /\ IF idx[p] < Len(sqls[p])
                 THEN /\ idx' = [idx EXCEPT ![p] = @ + 1]
                      /\ pc' = pc
                 ELSE /\ pc' = [pc EXCEPT ![p] = "commit"]
                      /\ idx' = idx
         ELSE /\ xerr' = [xerr EXCEPT ![p] = e]
              /\ log' = [log EXCEPT ![p] = Append(lg, Event("warn:sql", i[p], idx[p], 0, e))]
              /\ pc' = [pc EXCEPT ![p] = "rollback"]
              /\ UNCHANGED <<txns, idx>>
    /\ UNCHANGED <<call, sqls, query, i, err, txn, ret, dest, ctxDone, visible, clsIn, clsOut>>

\* executeSQLImp returning the rollback's error when the rollback fails
Rollback_returnsRerr(p) ==
    /\ pc[p] = "rollback"
    /\ \E o \in RollbackOutcomes :
         LET rerr == IF IsOk(o) THEN NoErr ELSE ErrOf(o, "rollback", i[p], idx[p])
             lg   == Append(log[p], Event("Rollback", i[p], idx[p], txn[p], rerr)) IN
         /\ txns' = [txns EXCEPT ![txn[p]].state = IF IsOk(o) THEN "rolledback" ELSE "rollbackFailed"]
         /\ IF IsOk(o)
            THEN AttemptReturn(p, Trace(xerr[p]), lg)
            ELSE AttemptReturn(p, Trace(rerr), Append(lg, Event("error:rollback", i[p], idx[p], 0, rerr)))
    /\ UNCHANGED <<call, sqls, query, xerr, idx, txn, dest, ctxDone, visible, clsIn, clsOut>>

\* executeSQLImp returning a failed statement's error without a rollback
Rollback_skipped(p) ==
    /\ pc[p] = "rollback"
    /\ AttemptReturn(p, Trace(xerr[p]), log[p])
    /\ UNCHANGED <<call, sqls, query, xerr, idx, txn, dest, ctxDone, txns, visible, clsIn, clsOut>>

\* executeSQLImp: txn.Rollback after a failed statement, and the return of
\* the statement's error
Rollback(p) ==
    /\ pc[p] = "rollback"
    /\ \E o \in RollbackOutcomes :
         LET rerr == IF IsOk(o) THEN NoErr ELSE ErrOf(o, "rollback", i[p], idx[p])
             lg   == Append(log[p], Event("Rollback", i[p], idx[p], txn[p], rerr)) IN
         /\ txns' = [txns EXCEPT ![txn[p]].state = IF IsOk(o) THEN "rolledback" ELSE "rollbackFailed"]
         /\ AttemptReturn(p, Trace(xerr[p]),
                          IF IsOk(o) THEN lg
                          ELSE Append(lg, Event("error:rollback", i[p], idx[p], 0, rerr)))
    /\ UNCHANGED <<call, sqls, query, xerr, idx, txn, dest, ctxDone, visible, clsIn, clsOut>>

\* executeSQLImp dropping the error of txn.Commit
Commit_ignoresError(p) ==
    /\ pc[p] = "commit"
    /\ \E o \in CommitOutcomes :
         LET e  == IF IsOk(o) THEN NoErr ELSE ErrOf(o, "commit", i[p], 0)
             lg == Append(log[p], Event("Commit", i[p], 0, txn[p], e)) IN
         /\ txns' = [txns EXCEPT ![txn[p]].state = IF IsOk(o) THEN "committed" ELSE "commitFailed"]
         /\ visible' = IF IsOk(o)
                       THEN visible \cup {<<txns[txn[p]].owner, txns[txn[p]].att, s>> :
                                              s \in txns[txn[p]].pending}
                       ELSE visible
         /\ AttemptReturn(p, NoErr, lg)
    /\ UNCHANGED <<call, sqls, query, xerr, idx, txn, dest, ctxDone, clsIn, clsOut>>

\* executeSQLImp: txn.Commit after the last statement
Commit(p) ==
    /\ pc[p] = "commit"
    /\ \E o \in CommitOutcomes :
         LET e  == IF IsOk(o) THEN NoErr ELSE ErrOf(o, "commit", i[p], 0)
             lg == Append(log[p], Event("Commit", i[p], 0, txn[p], e)) IN
         IF IsOk(o)
         THEN /\ txns' = [txns EXCEPT ![txn[p]].state = "committed"]
              /\ visible' = visible \cup
                     {<<txns[txn[p]].owner, txns[txn[p]].att, s>> : s \in txns[txn[p]].pending}
              /\ AttemptReturn(p, NoErr, lg)
         ELSE /\ txns' = [txns EXCEPT ![txn[p]].state = "commitFailed"]
              /\ visible' = visible
              /\ AttemptReturn(p, Trace(e), Append(lg, Event("error:commit", i[p], 0, 0, e)))
    /\ UNCHANGED <<call, sqls, query, xerr, idx, txn, dest, ctxDone, clsIn, clsOut>>

(* -------------------------- QueryRowWithRetry -------------------------- *)

CallQuery(p, q) ==
    /\ pc[p] = "idle"
    /\ call' = [call EXCEPT ![p] = "QueryRowWithRetry"]
    /\ query' = [query EXCEPT ![p] = q]
    /\ pc' = [pc EXCEPT ![p] = "qloop"]
    /\ UNCHANGED <<sqls, i, err, xerr, idx, txn, ret, dest, ctxDone, log, txns, visible, clsIn, clsOut>>

\* QueryRowWithRetry formatting its retry-exhausted error from err as well
QueryLoop_carriesCause(p) ==
    /\ pc[p] = "qloop"
    /\ IF i[p] < defaultMaxRetry
       THEN /\ log' = [log EXCEPT ![p] =
                  IF i[p] > 0
                  THEN @ \o <<Event("warn:retry", i[p], 0, 0, NoErr),
                              Event("sleep", i[p], retryTimeout, 0, NoErr)>>
                  ELSE @]
            /\ pc' = [pc EXCEPT ![p] = "query"]
            /\ ret' = ret
       ELSE /\ ret' = [ret EXCEPT ![p] = RetExecFailed(<<query[p]>>, err[p])]
            /\ pc' = [pc EXCEPT ![p] = "done"]
            /\ log' = log
    /\ UNCHANGED <<call, sqls, query, i, err, xerr, idx, txn, dest, ctxDone, txns, visible, clsIn, clsOut>>

\* QueryRowWithRetry sleeping before its first attempt too
QueryLoop_sleepsFirst(p) ==
    /\ pc[p] = "qloop"
    /\ IF i[p] < defaultMaxRetry
       THEN /\ log' = [log EXCEPT ![p] =
                  @ \o <<Event("warn:retry", i[p], 0, 0, NoErr),
                         Event("sleep", i[p], retryTimeout, 0, NoErr)>>]
            /\ pc' = [pc EXCEPT ![p] = "query"]
            /\ ret' = ret
       ELSE /\ ret' = [ret EXCEPT ![p] = RetQueryFailed(query[p])]
            /\ pc' = [pc EXCEPT ![p] = "done"]
            /\ log' = log
    /\ UNCHANGED <<call, sqls, query, i, err, xerr, idx, txn, dest, ctxDone, txns, visible, clsIn, clsOut>>

\* head of the retry loop
QueryLoop(p) ==
    /\ pc[p] = "qloop"
    /\ IF i[p] < defaultMaxRetry
       THEN /\ log' = [log EXCEPT ![p] =
                  IF i[p] > 0
                  THEN @ \o <<Event("warn:retry", i[p], 0, 0, NoErr),
                              Event("sleep", i[p], retryTimeout, 0, NoErr)>>
                  ELSE @]
            /\ pc' = [pc EXCEPT ![p] = "query"]
            /\ ret' = ret
       ELSE /\ ret' = [ret EXCEPT ![p] = RetQueryFailed(query[p])]
            /\ pc' = [pc EXCEPT ![p] = "done"]
            /\ log' = log
    /\ UNCHANGED <<call, sqls, query, i, err, xerr, idx, txn, dest, ctxDone, txns, visible, clsIn, clsOut>>

\* QueryRowWithRetry retrying every error without asking the classifier
QueryRow_retriesAll(p) ==
    /\ pc[p] = "query"
    /\ \E o \in CtxOutcomes(p), row \in Rows :
         LET e  == IF IsOk(o) THEN NoErr ELSE ErrOf(o, "query", i[p], 0)
             lg == Append(log[p], Event("QueryRowContext", i[p],
                                        IF IsOk(o) THEN row ELSE NoRow, 0, e)) IN
         IF IsOk(o)
         THEN /\ dest' = [dest EXCEPT ![p] = row]
              /\ err' = [err EXCEPT ![p] = NoErr]
              /\ ret' = [ret EXCEPT ![p] = RetNil]
              /\ pc' = [pc EXCEPT ![p] = "done"]
              /\ log' = [log EXCEPT ![p] = lg]
              /\ i' = i
         ELSE /\ err' = [err EXCEPT ![p] = e]
              /\ dest' = dest
              /\ log' = [log EXCEPT ![p] = Append(lg, Event("warn:query", i[p], 0, 0, e))]
              /\ i' = [i EXCEPT ![p] = @ + 1]
              /\ pc' = [pc EXCEPT ![p] = "qloop"]
              /\ ret' = ret
    /\ UNCHANGED <<call, sqls, query, xerr, idx, txn, ctxDone, txns, visible, clsIn, clsOut>>

\* db.QueryRowContext(ctx, query).Scan(dest...) and the handling of its error
QueryRow(p) ==
    /\ pc[p] = "query"
    /\ \E o \in CtxOutcomes(p), row \in Rows :
         LET e  == IF IsOk(o) THEN NoErr ELSE ErrOf(o, "query", i[p], 0)
             lg == Append(log[p], Event("QueryRowContext", i[p],
                                        IF IsOk(o) THEN row ELSE NoRow, 0, e)) IN
         IF IsOk(o)
         THEN /\ dest' = [dest EXCEPT ![p] = row]
              /\ err' = [err EXCEPT ![p] = NoErr]
              /\ ret' = [ret EXCEPT ![p] = RetNil]
              /\ pc' = [pc EXCEPT ![p] = "done"]
              /\ log' = [log EXCEPT ![p] = lg]
              /\ i' = i
         ELSE /\ err' = [err EXCEPT ![p] = e]
              /\ dest' = dest
              /\ IF ~isRetryableError(e)
                 THEN /\ ret' = [ret EXCEPT ![p] = RetTrace(e)]
                      /\ pc' = [pc EXCEPT ![p] = "done"]
                      /\ log' = [log EXCEPT ![p] = lg]
                      /\ i' = i
                 ELSE /\ log' = [log EXCEPT ![p] = Append(lg, Event("warn:query", i[p], 0, 0, e))]
                      /\ i' = [i EXCEPT ![p] = @ + 1]
                      /\ pc' = [pc EXCEPT ![p] = "qloop"]
                      /\ ret' = ret
    /\ UNCHANGED <<call, sqls, query, xerr, idx, txn, ctxDone, txns, visible, clsIn, clsOut>>

(* ------------------------------ context -------------------------------- *)

\* the caller cancels the context it passed to the invocation
Cancel(p) ==
    /\ pc[p] # "done"
    /\ ~ctxDone[p]
    /\ ctxDone' = [ctxDone EXCEPT ![p] = TRUE]
    /\ UNCHANGED <<call, pc, sqls, query, i, err, xerr, idx, txn, ret, dest, log, txns, visible, clsIn, clsOut>>

(* ----------------------------- classifier ------------------------------ *)

\* mysql error numbers tried on the classifier: every number it names, the
\* numbers next to them, and some it does not name
Codes ==
    UNION {{c - 1, c, c + 1} : c \in
             {ErrUnknown, ErrLockDeadlock, ErrPDServerTimeout, ErrTiKVServerTimeout,
              ErrTiKVServerBusy, ErrResolveLockTimeout, ErrRegionUnavailable}}
      \cup {0, 1062, 1064, 1205, 65535}

\* the error values handed to isRetryableError, under 0..MaxWrap wrappers,
\* and the nil error
ClassifierInputs ==
    LET raw == {MkErr("badconn", FALSE, 0, "none", 0, 0),
                MkErr("ctx", FALSE, 0, "none", 0, 0),
                MkErr("other", FALSE, 0, "none", 0, 0)}
               \cup {MkErr("net", t, 0, "none", 0, 0) : t \in BOOLEAN}
               \cup {MkErr("mysql", FALSE, n, "none", 0, 0) : n \in Codes}
    IN {[e EXCEPT !.depth = d] : e \in raw, d \in 0..MaxWrap} \cup {NoErr}

InitClassify ==
    /\ InitCalls
    /\ clsIn \in ClassifierInputs
    /\ clsOut = "none"

\* one call of isRetryableError on the chosen error
Classify ==
    /\ clsOut = "none"
    /\ clsIn \in ClassifierInputs
    /\ clsOut' = IF isRetryableError(clsIn) THEN "Transient" ELSE "Fatal"
    /\ UNCHANGED <<pc, call, sqls, query, i, err, xerr, idx, txn, ret, dest, ctxDone, log, txns, visible, clsIn>>

NextClassify == Classify

SpecClassify == InitClassify /\ [][NextClassify]_vars

(* --------------------------- specification ----------------------------- *)

\* one invocation, running alone
Next ==
    \/ \E b \in Batches : CallExec(Main, b)
    \/ ExecLoop(Main)
    \/ BeginTx(Main)
    \/ ExecStmt(Main)
    \/ Rollback(Main)
    \/ Commit(Main)
    \/ \E q \in Queries : CallQuery(Main, q)
    \/ QueryLoop(Main)
    \/ QueryRow(Main)
    \/ Cancel(Main)

Spec == Init /\ [][Next]_vars

(* ----------------------- concurrent invocations ------------------------ *)

\* most database calls that fail while the invocations run concurrently
MaxConcFaults == 1

\* the batches of the concurrent invocations
ConcBatches == {<<"s1">>, <<"s1", "s2">>}

\* the database calls that have failed so far do not exceed the bound
ConcFaultsBounded ==
    LET failed(p) == {n \in DOMAIN log[p] :
                         /\ log[p][n].ev \in {"BeginTx", "ExecContext", "Rollback", "Commit"}
                         /\ log[p][n].e # NoErr}
        RECURSIVE total(_)
        total(S) == IF S = {} THEN 0
                    ELSE LET q == CHOOSE x \in S : TRUE
                         IN Cardinality(failed(q)) + total(S \ {q})
    IN total(Procs) <= MaxConcFaults

\* ExecWithRetry invocations running concurrently on the same database handle
NextConc ==
    \E p \in Procs :
        \/ \E b \in ConcBatches : CallExec(p, b)
        \/ ExecLoop(p)
        \/ BeginTx(p) /\ ConcFaultsBounded'
        \/ ExecStmt(p) /\ ConcFaultsBounded'
        \/ Rollback(p) /\ ConcFaultsBounded'
        \/ Commit(p) /\ ConcFaultsBounded'

SpecConc == Init /\ [][NextConc]_vars

(* ------------------------------- claims -------------------------------- *)

Outcome(b) == IF b THEN "Transient" ELSE "Fatal"

\* positions in p's trace of the entries named ev
Evs(p, ev) == {n \in DOMAIN log[p] : log[p][n].ev = ev}

\* positions of the database call that opens an attempt
Starts(p) == Evs(p, "BeginTx") \cup Evs(p, "QueryRowContext")

\* positions of the database calls whose error fails an attempt
Failures(p) ==
    {n \in DOMAIN log[p] :
        /\ log[p][n].ev \in {"BeginTx", "ExecContext", "Commit", "QueryRowContext"}
        /\ log[p][n].e # NoErr}

\* C1: effects of an attempt in which a statement failed are never visible,
\* whatever the rollback answered; an effect is visible only if every
\* statement of its attempt succeeded and that attempt's transaction committed.
C1_Atomicity ==
    \A p \in Procs :
        /\ \A n \in Evs(p, "ExecContext") :
              log[p][n].e # NoErr =>
                  \A v \in visible : ~(v[1] = p /\ v[2] = log[p][n].att)
        /\ \A v \in visible :
              v[1] = p =>
                  /\ \A k \in 1..Len(sqls[p]) :
                        \E n \in Evs(p, "ExecContext") :
                            /\ log[p][n].att = v[2]
                            /\ log[p][n].arg = k
                            /\ log[p][n].e = NoErr
                  /\ \E n \in Evs(p, "Commit") : log[p][n].att = v[2] /\ log[p][n].e = NoErr
                  /\ \E id \in DOMAIN txns :
                        /\ txns[id].owner = p
                        /\ txns[id].att = v[2]
                        /\ txns[id].state = "committed"

\* the call has returned after an attempt whose second statement failed and
\* whose rollback failed too
C1_Witness ==
    /\ pc[Main] = "done"
    /\ \E n \in Evs(Main, "ExecContext"), m \in Evs(Main, "Rollback") :
          /\ log[Main][n].arg = 2
          /\ log[Main][n].e # NoErr
          /\ log[Main][m].att = log[Main][n].att
          /\ log[Main][m].e # NoErr
          /\ txns[log[Main][m].id].pending = {1}

\* C2: once an attempt of either function fails with a Fatal error, no sleep,
\* retry warning or database call of a further attempt follows, the call
\* returns that error wrapped, and a Fatal first attempt is the only attempt.
C2_FatalShortCircuit ==
    \A p \in Procs :
        \A n \in Failures(p) :
            ~isRetryableError(log[p][n].e) =>
                /\ \A m \in DOMAIN log[p] :
                      m > n => log[p][m].ev \notin {"sleep", "warn:retry", "BeginTx", "ExecContext",
                                                    "Commit", "QueryRowContext"}
                /\ pc[p] \in {"rollback", "done"}
                /\ pc[p] = "done" =>
                      /\ ret[p].tag = "trace"
                      /\ ret[p].err.depth > 0
                      /\ Cause(ret[p].err) = log[p][n].e
                /\ Cardinality(Starts(p)) = log[p][n].att + 1
                /\ log[p][n].att = 0 => Cardinality(Evs(p, "sleep")) = 0

\* ExecWithRetry has returned a Fatal error of its first attempt
C2_Witness ==
    /\ pc[Main] = "done"
    /\ call[Main] = "ExecWithRetry"
    /\ ret[Main].tag = "trace"
    /\ \E n \in Failures(Main) : log[Main][n].att = 0 /\ ~isRetryableError(log[Main][n].e)

\* C3: no call makes more than defaultMaxRetry (3) attempts; a call returns
\* the retry-exhausted error only after 3 attempts that each failed with a
\* Transient error, with 2 sleeps of 3 s, one between consecutive attempts; and
\* a call all of whose attempts failed with Transient errors returns it.
C3_TransientBound ==
    \A p \in Procs :
        LET transientAtts == {log[p][n].att : n \in {m \in Failures(p) : isRetryableError(log[p][m].e)}}
            startedAtts   == {log[p][n].att : n \in Starts(p)}
            startOf(a)    == CHOOSE n \in Starts(p) : log[p][n].att = a
        IN
        /\ Cardinality(Starts(p)) <= defaultMaxRetry
        /\ Cardinality(Starts(p)) = Cardinality(startedAtts)
        /\ (pc[p] = "done" /\ ret[p].tag = "errorf") =>
              /\ defaultMaxRetry = 3
              /\ startedAtts = 0..2
              /\ transientAtts = 0..2
              /\ Cardinality(Evs(p, "sleep")) = 2
              /\ \A n \in Evs(p, "sleep") : log[p][n].arg = 3
              /\ \A a \in 1..2 :
                    \E n \in Evs(p, "sleep") : startOf(a - 1) < n /\ n < startOf(a)
        /\ (pc[p] = "done" /\ startedAtts # {} /\ startedAtts \subseteq transientAtts) =>
              ret[p].tag = "errorf"

\* ExecWithRetry has returned the retry-exhausted error
C3_Witness ==
    /\ pc[Main] = "done"
    /\ call[Main] = "ExecWithRetry"
    /\ ret[Main].tag = "errorf"
    /\ Cardinality(Failures(Main)) = 3

\* C6: ExecWithRetry on an empty batch has returned nil at once: no database
\* call, no sleep, no log line, no transaction, whatever the context's state.
C6_EmptyBatch ==
    \A p \in Procs :
        (call[p] = "ExecWithRetry" /\ sqls[p] = <<>>) =>
            /\ pc[p] = "done"
            /\ ret[p] = RetNil
            /\ log[p] = <<>>
            /\ i[p] = 0
            /\ \A id \in DOMAIN txns : txns[id].owner # p
            /\ \A v \in visible : v[1] # p

\* ExecWithRetry was called with an empty batch and a cancelled context
C6_Witness ==
    /\ call[Main] = "ExecWithRetry"
    /\ sqls[Main] = <<>>
    /\ ctxDone[Main]
    /\ pc[Main] = "done"

\* C4: the classifier answers Transient for the bad-connection sentinel
\* (bare or wrapped), exactly the timeout indicator for a network error, and
\* Transient for an error of none of the recognized shapes.
C4_ClassifierShapes ==
    clsOut # "none" =>
        /\ clsIn.shape = "badconn" => clsOut = "Transient"
        /\ clsIn.shape = "net" => clsOut = Outcome(clsIn.timeout)
        /\ clsIn.shape \notin {"badconn", "net", "mysql"} => clsOut = "Transient"
        /\ clsOut \in {"Transient", "Fatal"}

\* a wrapped network error that did not time out has been classified
C4_Witness ==
    /\ clsOut = "Fatal"
    /\ clsIn.shape = "net"
    /\ ~clsIn.timeout
    /\ clsIn.depth > 0

\* C5: a backend protocol error is Transient exactly when its number is
\* unknown-error, lock-deadlock, (PD or TiKV) server-timeout, server-busy,
\* resolve-lock-timeout or region-unavailable, and Fatal otherwise.
C5_BackendCodes ==
    (clsOut # "none" /\ clsIn.shape = "mysql") =>
        /\ clsOut = "Transient" <=> clsIn.number \in {1105, 1213, 9001, 9002, 9003, 9004, 9005}
        /\ clsOut = "Fatal" <=> clsIn.number \notin {1105, 1213, 9001, 9002, 9003, 9004, 9005}

\* the last code of the transient set and its neighbour have been classified
C5_Witness ==
    /\ clsIn.shape = "mysql"
    /\ \/ clsIn.number = ErrRegionUnavailable /\ clsOut = "Transient"
       \/ clsIn.number = ErrRegionUnavailable + 1 /\ clsOut = "Fatal"

\* C7: the step that rolls back after a failed statement calls Rollback on
\* the attempt's transaction and hands the statement's error, never the
\* rollback's, to the retry loop; a failed rollback is logged; a Fatal
\* statement error is the one returned.
C7_RollbackKeepsPrimary ==
    [][\A p \in Procs :
         (pc[p] = "rollback" /\ pc'[p] # "rollback") =>
             LET stmtErr == log[p][Len(log[p]) - 1].e
                 rb      == log'[p][Len(log[p]) + 1]
             IN
             /\ log[p][Len(log[p]) - 1].ev = "ExecContext"
             /\ stmtErr # NoErr
             /\ stmtErr.op = "exec"
             /\ rb.ev = "Rollback"
             /\ rb.id = txn[p]
             /\ txns[txn[p]].att = i[p]
             /\ err'[p] # NoErr
             /\ Cause(err'[p]) = stmtErr
             /\ rb.e # NoErr =>
                   /\ log'[p][Len(log[p]) + 2].ev = "error:rollback"
                   /\ log'[p][Len(log[p]) + 2].e = rb.e
                   /\ Cause(err'[p]) # rb.e
                   /\ ret'[p].err # NoErr => Cause(ret'[p].err) # rb.e
             /\ pc'[p] = "loop" <=> isRetryableError(stmtErr)
             /\ pc'[p] = "done" <=> ~isRetryableError(stmtErr)
             /\ pc'[p] = "done" =>
                   /\ ret'[p].tag = "trace"
                   /\ Cause(ret'[p].err) = stmtErr
      ]_vars

\* a call has returned the Fatal error of a statement whose rollback failed
C7_Witness ==
    /\ pc[Main] = "done"
    /\ ret[Main].tag = "trace"
    /\ ret[Main].err.op = "exec"
    /\ \E n \in Evs(Main, "Rollback") : log[Main][n].e # NoErr

\* C8: a failed Commit (after every statement of the attempt succeeded)
\* commits nothing and is classified: a Transient error leads to the next
\* attempt, which after the warning and the sleep begins a new transaction
\* and starts again from the first statement, or to the retry-exhausted error
\* when it was the last attempt; a Fatal error is returned wrapped at once.
C8_CommitFailure ==
    \A p \in Procs :
        \A n \in Evs(p, "Commit") :
            log[p][n].e # NoErr =>
                LET a   == log[p][n].att
                    e   == log[p][n].e
                    len == Len(log[p])
                IN
                /\ \A k \in 1..Len(sqls[p]) :
                      \E m \in Evs(p, "ExecContext") :
                          m < n /\ log[p][m].att = a /\ log[p][m].arg = k /\ log[p][m].e = NoErr
                /\ txns[log[p][n].id].state = "commitFailed"
                /\ \A v \in visible : ~(v[1] = p /\ v[2] = a)
                /\ IF isRetryableError(e)
                   THEN /\ i[p] > a
                        /\ ret[p].tag \in {"none", "nil", "errorf"} \/ Cause(ret[p].err) # e
                        /\ a + 1 < defaultMaxRetry =>
                              /\ len = n + 1 => pc[p] = "loop"
                              /\ len > n + 1 =>
                                    /\ len >= n + 3
                                    /\ log[p][n + 2].ev = "warn:retry"
                                    /\ log[p][n + 3].ev = "sleep"
                                    /\ log[p][n + 3].arg = retryTimeout
                              /\ len = n + 3 => pc[p] = "begin"
                              /\ len > n + 3 =>
                                    /\ log[p][n + 4].ev = "BeginTx"
                                    /\ log[p][n + 4].att = a + 1
                              /\ (len > n + 4 /\ log[p][n + 4].e = NoErr) =>
                                    /\ log[p][n + 6].ev = "ExecContext"
                                    /\ log[p][n + 6].arg = 1
                                    /\ log[p][n + 6].id # log[p][n].id
                                    /\ txns[log[p][n + 6].id].att = a + 1
                        /\ a + 1 = defaultMaxRetry =>
                              /\ len = n + 1
                              /\ pc[p] \in {"loop", "done"}
                              /\ pc[p] = "done" => ret[p].tag = "errorf"
                   ELSE /\ pc[p] = "done"
                        /\ len = n + 2
                        /\ ret[p].tag = "trace"
                        /\ ret[p].err.depth > 0
                        /\ Cause(ret[p].err) = e

\* a Transient commit failure in the first attempt was followed by a second
\* attempt that committed
C8_Witness ==
    /\ pc[Main] = "done"
    /\ ret[Main].tag = "nil"
    /\ \E n, m \in Evs(Main, "Commit") :
          /\ log[Main][n].att = 0
          /\ log[Main][n].e # NoErr
          /\ log[Main][m].att = 1
          /\ log[Main][m].e = NoErr

\* C9: an invocation has at most one transaction on which neither Commit nor
\* Rollback was called, none between attempts or after its return, and it
\* calls exactly one of Commit and Rollback on every transaction it began.
C9_TxnLifetime ==
    \A p \in Procs :
        LET mine == {id \in DOMAIN txns : txns[id].owner = p}
            open == {id \in mine : txns[id].state = "open"}
        IN
        /\ Cardinality(open) <= 1
        /\ pc[p] \in {"idle", "loop", "begin", "qloop", "query", "done"} => open = {}
        /\ pc[p] \in {"exec", "rollback", "commit"} => open = {txn[p]} /\ txns[txn[p]].att = i[p]
        /\ \A id \in mine :
              Cardinality({n \in Evs(p, "Commit") \cup Evs(p, "Rollback") : log[p][n].id = id})
                  = IF id \in open THEN 0 ELSE 1
        /\ Cardinality(mine) = Cardinality({n \in Evs(p, "BeginTx") : log[p][n].e = NoErr})

\* a call has returned after three transactions, one of them with a failed
\* rollback and one with a failed commit
C9_Witness ==
    /\ pc[Main] = "done"
    /\ Len(txns) = 3
    /\ \E id \in DOMAIN txns : txns[id].state = "rollbackFailed"
    /\ \E id \in DOMAIN txns : txns[id].state = "commitFailed"

\* C10: the retry-exhausted error of ExecWithRetry is formatted from the
\* batch and from the error of the last (third) attempt, not an earlier one.
C10_ExhaustedLastCause ==
    \A p \in Procs :
        (pc[p] = "done" /\ call[p] = "ExecWithRetry" /\ ret[p].tag = "errorf") =>
            /\ ret[p].text = sqls[p]
            /\ \E n \in Failures(p) :
                  /\ log[p][n].att = defaultMaxRetry - 1
                  /\ ret[p].cause = ErrorText(log[p][n].e)
            /\ \A n \in Failures(p) :
                  log[p][n].att < defaultMaxRetry - 1 => ret[p].cause # ErrorText(log[p][n].e)

\* ExecWithRetry is exhausted after a begin failure, a statement failure and
\* a commit failure
C10_Witness ==
    /\ pc[Main] = "done"
    /\ call[Main] = "ExecWithRetry"
    /\ ret[Main].tag = "errorf"
    /\ \E n \in Failures(Main) : log[Main][n].att = 0 /\ log[Main][n].ev = "BeginTx"
    /\ \E n \in Failures(Main) : log[Main][n].att = 1 /\ log[Main][n].ev = "ExecContext"
    /\ \E n \in Failures(Main) : log[Main][n].att = 2 /\ log[Main][n].ev = "Commit"

\* C11: the retry-exhausted error of QueryRowWithRetry is formatted from the
\* query alone and holds nothing of any attempt's error, while its Fatal
\* return is the wrapped error of the failed attempt.
C11_QueryExhaustedNoCause ==
    \A p \in Procs :
        (pc[p] = "done" /\ call[p] = "QueryRowWithRetry") =>
            /\ ret[p].tag = "errorf" =>
                  /\ ret[p].text = <<query[p]>>
                  /\ ret[p].err = NoErr
                  /\ ret[p].cause = ErrorText(NoErr)
                  /\ Cardinality(Failures(p)) = defaultMaxRetry
                  /\ \A n \in Failures(p) :
                        /\ isRetryableError(log[p][n].e)
                        /\ ret[p].cause # ErrorText(log[p][n].e)
            /\ ret[p].tag = "trace" =>
                  /\ ret[p].err.depth > 0
                  /\ \E n \in Failures(p) :
                        /\ n = Len(log[p])
                        /\ ~isRetryableError(log[p][n].e)
                        /\ Cause(ret[p].err) = log[p][n].e
            /\ \A n \in Failures(p) :
                  ~isRetryableError(log[p][n].e) => ret[p].tag = "trace"

\* QueryRowWithRetry has returned the retry-exhausted error
C11_Witness ==
    /\ pc[Main] = "done"
    /\ call[Main] = "QueryRowWithRetry"
    /\ ret[Main].tag = "errorf"
    /\ Cardinality(Failures(Main)) = 3

\* C12: a call returns nil exactly when its last attempt, the j-th, succeeded;
\* then attempts 1..j-1 failed with Transient errors, there were j-1 sleeps,
\* nothing follows attempt j, and QueryRowWithRetry's destination holds the
\* row scanned by attempt j.
C12_SuccessAfterTransient ==
    \A p \in Procs :
        LET oks == {n \in Evs(p, "Commit") \cup Evs(p, "QueryRowContext") : log[p][n].e = NoErr}
            j   == Cardinality(Starts(p))
        IN
        /\ \A n \in oks :
              /\ n = Len(log[p])
              /\ pc[p] = "done"
              /\ ret[p] = RetNil
        /\ (pc[p] = "done" /\ ret[p].tag = "nil" /\ sqls[p] # <<>>) => oks # {}
        /\ (pc[p] = "done" /\ ret[p].tag = "nil" /\ call[p] = "QueryRowWithRetry") => oks # {}
        /\ oks # {} =>
              /\ j <= defaultMaxRetry
              /\ {log[p][n].att : n \in Starts(p)} = 0..(j - 1)
              /\ log[p][Len(log[p])].att = j - 1
              /\ {log[p][n].att : n \in Failures(p)} = 0..(j - 2)
              /\ \A n \in Failures(p) : isRetryableError(log[p][n].e)
              /\ Cardinality(Evs(p, "sleep")) = j - 1
              /\ \A n \in Evs(p, "sleep") : log[p][n].arg = retryTimeout
              /\ call[p] = "QueryRowWithRetry" =>
                    /\ dest[p] \in Rows
                    /\ dest[p] = log[p][Len(log[p])].arg

\* QueryRowWithRetry has succeeded in its third attempt, after two Transient
\* failures, and scanned the row r2
C12_Witness ==
    /\ pc[Main] = "done"
    /\ call[Main] = "QueryRowWithRetry"
    /\ ret[Main].tag = "nil"
    /\ Cardinality(Failures(Main)) = 2
    /\ Cardinality(Evs(Main, "sleep")) = 2
    /\ dest[Main] = "r2"

\* C13: once the context of an invocation is cancelled, the invocation starts
\* no backoff sleep and no further attempt.
C13_CancelAborts ==
    [][\A p \in Procs :
         ctxDone[p] =>
             \A n \in (DOMAIN log'[p]) \ (DOMAIN log[p]) :
                 log'[p][n].ev \notin {"sleep", "BeginTx", "QueryRowContext"}
      ]_vars

\* the steps of an invocation that has been called
Running(p) ==
    \/ ExecLoop(p)
    \/ BeginTx(p)
    \/ ExecStmt(p)
    \/ Rollback(p)
    \/ Commit(p)
    \/ QueryLoop(p)
    \/ QueryRow(p)

\* no invocation has dereferenced a nil error, made more than defaultMaxRetry
\* attempts or returned anything but nil or an error value; the loop of
\* ExecWithRetry is left with a non-nil err
NoFault ==
    \A p \in Procs :
        /\ pc[p] # "panic"
        /\ Cardinality(Starts(p)) <= defaultMaxRetry
        /\ i[p] <= defaultMaxRetry
        /\ pc[p] = "done" => ret[p].tag \in {"nil", "trace", "errorf"}
        /\ pc[p] # "done" => ret[p] = NoRet
        /\ (pc[p] = "loop" /\ i[p] >= defaultMaxRetry) => err[p] # NoErr
        /\ (pc[p] = "done" /\ call[p] = "ExecWithRetry" /\ ret[p].tag = "errorf") =>
              ret[p].cause # ErrorText(NoErr)

\* how many steps an invocation has left at most: twice the steps its
\* remaining attempts can take, plus one while its context can be cancelled
Rank(p) ==
    LET k     == MaxBatch + 6
        stage == CASE pc[p] \in {"loop", "qloop"} -> k - 1
                   [] pc[p] \in {"begin", "query"} -> k - 2
                   [] pc[p] = "exec" -> k - 3 - idx[p]
                   [] pc[p] \in {"rollback", "commit"} -> 1
                   [] OTHER -> 0
        base  == CASE pc[p] = "idle" -> (defaultMaxRetry + 1) * k
                   [] pc[p] \in {"done", "panic"} -> 0
                   [] OTHER -> (defaultMaxRetry - i[p]) * k + stage
    IN 2 * base + (IF ctxDone[p] /\ pc[p] # "done" THEN 0 ELSE 1)

\* C14: an invocation never faults (the retry-exhausted path of
\* ExecWithRetry is reached only with a non-nil err) and terminates: every
\* step brings it closer to its return, which comes after at most
\* defaultMaxRetry attempts with nil or an error value, and until it has
\* returned it has a step to take.
C14_TerminatesWithoutFault ==
    /\ []NoFault
    /\ [][Rank(Main)' < Rank(Main) /\ Rank(Main)' >= 0]_vars
    /\ [](pc[Main] \notin {"idle", "done"} => ENABLED Running(Main))

\* ExecWithRetry has left its loop after three attempts
C14_Witness ==
    /\ pc[Main] = "done"
    /\ call[Main] = "ExecWithRetry"
    /\ ret[Main].tag = "errorf"
    /\ i[Main] = defaultMaxRetry
    /\ err[Main] # NoErr

\* positions of the first database call of the attempts after the first
RetryStarts(p) == {n \in Starts(p) : log[p][n].att > 0}

\* C15 as stated: before each attempt after the first the sleep comes first
\* and the retry warning follows it, right before the attempt.
C15_SleepThenWarn ==
    \A p \in Procs :
        \A n \in RetryStarts(p) :
            /\ n > 2
            /\ log[p][n - 2].ev = "sleep"
            /\ log[p][n - 1].ev = "warn:retry"

\* C15 as amended: before each attempt after the first the retry warning,
\* carrying the loop counter, is logged first and the sleep of retryTimeout
\* follows it, right before the attempt; the first attempt is preceded by
\* neither, and there is no other sleep or retry warning.
C15_WarnThenSleep ==
    \A p \in Procs :
        /\ \A n \in RetryStarts(p) :
              /\ n > 2
              /\ log[p][n - 2].ev = "warn:retry"
              /\ log[p][n - 2].att = log[p][n].att
              /\ log[p][n - 1].ev = "sleep"
              /\ log[p][n - 1].arg = retryTimeout
        /\ \A n \in Starts(p) : log[p][n].att = 0 => n = 1
        /\ \A n \in Evs(p, "warn:retry") :
              /\ n < Len(log[p])
              /\ log[p][n + 1].ev = "sleep"
              /\ log[p][n].att > 0
        /\ \A n \in Evs(p, "sleep") :
              /\ n > 1
              /\ log[p][n - 1].ev = "warn:retry"
              /\ n < Len(log[p]) => n + 1 \in RetryStarts(p)
              /\ n = Len(log[p]) => pc[p] \in {"begin", "query"}

\* the third attempt of ExecWithRetry has begun
C15_Witness ==
    /\ call[Main] = "ExecWithRetry"
    /\ \E n \in Evs(Main, "BeginTx") : log[Main][n].att = 2
    /\ Cardinality(Evs(Main, "sleep")) = 2

\* C16: in every attempt the statements are executed in batch order from the
\* first one, a statement only after the one before it succeeded in the same
\* transaction; after a failed statement the attempt executes no further
\* statement and calls no Commit.
C16_InOrderStopAtFailure ==
    \A p \in Procs :
        /\ \A n \in Evs(p, "ExecContext") :
              LET k == log[p][n].arg
                  a == log[p][n].att
              IN
              /\ k \in 1..Len(sqls[p])
              /\ log[p][n - 1].ev = "debug:sql"
              /\ log[p][n - 1].arg = k
              /\ k = 1 =>
                    /\ log[p][n - 2].ev = "BeginTx"
                    /\ log[p][n - 2].e = NoErr
                    /\ log[p][n - 2].att = a
              /\ k > 1 =>
                    /\ log[p][n - 2].ev = "ExecContext"
                    /\ log[p][n - 2].arg = k - 1
                    /\ log[p][n - 2].e = NoErr
                    /\ log[p][n - 2].att = a
                    /\ log[p][n - 2].id = log[p][n].id
              /\ Cardinality({m \in Evs(p, "ExecContext") :
                                 log[p][m].att = a /\ log[p][m].arg = k}) = 1
              /\ log[p][n].e # NoErr =>
                    /\ \A m \in Evs(p, "ExecContext") \cup Evs(p, "Commit") :
                          m > n => log[p][m].att > a
                    /\ \A m \in Evs(p, "Commit") : log[p][m].id # log[p][n].id
                    /\ txns[log[p][n].id].state \notin {"committed", "commitFailed"}
        /\ \A n \in Evs(p, "Commit") :
              /\ log[p][n - 1].ev = "ExecContext"
              /\ log[p][n - 1].arg = Len(sqls[p])
              /\ log[p][n - 1].e = NoErr
              /\ log[p][n - 1].att = log[p][n].att
        /\ pc[p] = "exec" =>
              /\ idx[p] \in 1..Len(sqls[p])
              /\ txns[txn[p]].pending = 1..(idx[p] - 1)

\* an attempt executed its first statement and failed in the second, and a
\* later attempt started again from the first statement
C16_Witness ==
    \E n, m \in Evs(Main, "ExecContext") :
        /\ log[Main][n].arg = 2
        /\ log[Main][n].e # NoErr
        /\ m > n
        /\ log[Main][m].arg = 1
        /\ pc[Main] = "done"

\* C17: with invocations running concurrently, every ExecContext, Rollback
\* and Commit of an invocation is made on a transaction that this invocation
\* began in the attempt it is in; no transaction gets calls from two
\* invocations, and an invocation has at most one open transaction.
C17_TxnExclusive ==
    \A p \in Procs :
        /\ \A n \in Evs(p, "ExecContext") \cup Evs(p, "Rollback") \cup Evs(p, "Commit") :
              /\ log[p][n].id \in DOMAIN txns
              /\ txns[log[p][n].id].owner = p
              /\ txns[log[p][n].id].att = log[p][n].att
              /\ \A q \in Procs \ {p} :
                    \A m \in Evs(q, "ExecContext") \cup Evs(q, "Rollback") \cup Evs(q, "Commit") :
                        log[q][m].id # log[p][n].id
        /\ pc[p] \in {"exec", "rollback", "commit"} =>
              /\ txn[p] \in DOMAIN txns
              /\ txns[txn[p]].owner = p
              /\ txns[txn[p]].att = i[p]
              /\ txns[txn[p]].state = "open"
        /\ Cardinality({id \in DOMAIN txns : txns[id].owner = p /\ txns[id].state = "open"}) <= 1
        /\ \A v \in visible :
              v[1] = p => \E n \in Evs(p, "Commit") : log[p][n].e = NoErr /\ log[p][n].att = v[2]

\* both invocations are inside a transaction at the same time, the second
\* one begun while the first was open, and each has executed a statement
C17_Witness ==
    /\ pc[1] \in {"exec", "commit"}
    /\ pc[2] \in {"exec", "commit"}
    /\ txn[1] < txn[2]
    /\ txns[txn[1]].pending # {}
    /\ txns[txn[2]].pending # {}
    /\ txns[txn[1]].state = "open"
    /\ txns[txn[2]].state = "open"

\* the error that ended attempt a of p, NoErr when none did
AttemptErr(p, a) ==
    IF \E n \in Failures(p) : log[p][n].att = a
    THEN log[p][CHOOSE n \in Failures(p) : log[p][n].att = a].e
    ELSE NoErr

\* what a retry loop returns after j attempts the last of which ended with e
ExpectedTag(j, e) ==
    IF e = NoErr THEN "nil"
    ELSE IF ~isRetryableError(e) THEN "trace"
    ELSE IF j = defaultMaxRetry THEN "errorf"
    ELSE "none"

\* C18: QueryRowWithRetry makes one QueryRowContext call per attempt and no
\* BeginTx, ExecContext, Rollback or Commit; between attempts and after the
\* return, both functions have the same attempts, sleeps and kind of result
\* for the same errors of the attempts: the earlier attempts failed with
\* Transient errors, one sleep precedes each attempt but the first, and the
\* last attempt's error decides between nil, the wrapped error, the
\* retry-exhausted error and a further attempt.
C18_QueryLikeExec ==
    \A p \in Procs :
        /\ call[p] = "QueryRowWithRetry" =>
              /\ \A n \in DOMAIN log[p] :
                    log[p][n].ev \in {"warn:retry", "sleep", "QueryRowContext", "warn:query"}
              /\ \A id \in DOMAIN txns : txns[id].owner # p
              /\ \A v \in visible : v[1] # p
              /\ txn[p] = 0
              /\ \A n, m \in Evs(p, "QueryRowContext") : log[p][n].att = log[p][m].att => n = m
              /\ Cardinality(Evs(p, "QueryRowContext")) = IF pc[p] = "query" THEN i[p] ELSE
                     IF ret[p].tag \in {"nil", "trace"} THEN i[p] + 1 ELSE i[p]
        /\ (pc[p] \in {"loop", "qloop", "done"} /\ Starts(p) # {}) =>
              LET j    == Cardinality(Starts(p))
                  last == AttemptErr(p, j - 1)
              IN
              /\ {log[p][n].att : n \in Starts(p)} = 0..(j - 1)
              /\ \A a \in 0..(j - 2) :
                    AttemptErr(p, a) # NoErr /\ isRetryableError(AttemptErr(p, a))
              /\ Cardinality(Evs(p, "sleep")) = j - 1
              /\ ret[p].tag = IF pc[p] = "done" THEN ExpectedTag(j, last) ELSE "none"
              /\ pc[p] # "done" =>
                    /\ last # NoErr
                    /\ isRetryableError(last)
                    /\ i[p] = j
              /\ ExpectedTag(j, last) \in {"nil", "trace"} => pc[p] = "done"

\* QueryRowWithRetry has returned a Fatal error in its second attempt
C18_Witness ==
    /\ pc[Main] = "done"
    /\ call[Main] = "QueryRowWithRetry"
    /\ ret[Main].tag = "trace"
    /\ Cardinality(Evs(Main, "QueryRowContext")) = 2
    /\ Cardinality(Evs(Main, "sleep")) = 1

\* positions in p's trace of the database calls made on transaction id
OnTxn(p, id, ev) == {n \in Evs(p, ev) : log[p][n].id = id}

\* C19: when ExecWithRetry has returned nil for a non-empty batch, exactly
\* one transaction of the invocation has committed; it is the one of the last
\* attempt, it executed statements 1..Len(sqls) once each, in order and
\* without error, before its commit, and exactly these effects are visible;
\* every transaction of an earlier attempt ended rolled back or with a
\* failed commit, and no earlier Commit call returned nil.
C19_SuccessOneCommit ==
    \A p \in Procs :
        (/\ pc[p] = "done"
         /\ call[p] = "ExecWithRetry"
         /\ ret[p] = RetNil
         /\ sqls[p] # <<>>) =>
            LET mine == {id \in DOMAIN txns : txns[id].owner = p}
                comm == {id \in mine : txns[id].state = "committed"}
                okc  == {n \in Evs(p, "Commit") : log[p][n].e = NoErr}
            IN
            /\ Cardinality(comm) = 1
            /\ okc = {Len(log[p])}
            /\ \A c \in comm :
                  LET ex == OnTxn(p, c, "ExecContext") IN
                  /\ log[p][Len(log[p])].id = c
                  /\ txns[c].att = i[p]
                  /\ txns[c].pending = 1..Len(sqls[p])
                  /\ Cardinality(ex) = Len(sqls[p])
                  /\ \A n \in ex : log[p][n].e = NoErr /\ log[p][n].att = i[p]
                  /\ \A n, m \in ex : n < m <=> log[p][n].arg < log[p][m].arg
                  /\ {log[p][n].arg : n \in ex} = 1..Len(sqls[p])
                  /\ Evs(p, "ExecContext") \cap {n \in DOMAIN log[p] : log[p][n].att = i[p]} = ex
                  /\ OnTxn(p, c, "Rollback") = {}
                  /\ {v \in visible : v[1] = p} = {<<p, i[p], s>> : s \in 1..Len(sqls[p])}
                  /\ \A id \in mine \ {c} :
                        /\ id < c
                        /\ txns[id].att < txns[c].att
                        /\ txns[id].state \in {"rolledback", "rollbackFailed", "commitFailed"}
                        /\ \A n \in OnTxn(p, id, "Commit") : log[p][n].e # NoErr

\* ExecWithRetry has returned nil for a two-statement batch in its third
\* attempt, after one attempt ended in a rollback and one in a failed commit
C19_Witness ==
    /\ pc[Main] = "done"
    /\ call[Main] = "ExecWithRetry"
    /\ ret[Main] = RetNil
    /\ Len(sqls[Main]) = 2
    /\ i[Main] = 2
    /\ \E id \in DOMAIN txns : txns[id].owner = Main /\ txns[id].state = "rolledback"
    /\ \E id \in DOMAIN txns : txns[id].owner = Main /\ txns[id].state = "commitFailed"

\* C20: an attempt whose BeginTx failed executes no statement, issues no
\* Rollback and no Commit and leaves no transaction behind; the begin error
\* is logged and then classified like any attempt failure: a Transient one
\* moves the loop to the next attempt (or, in the last attempt, to the
\* retry-exhausted return carrying it), a Fatal one is logged and returned
\* wrapped at once.
C20_BeginFailure ==
    \A p \in Procs : \A n \in Evs(p, "BeginTx") :
        LET a == log[p][n].att
            e == log[p][n].e
            k == Len(log[p])
        IN
        e # NoErr =>
            /\ \A m \in DOMAIN log[p] :
                  log[p][m].att = a =>
                      log[p][m].ev \notin {"debug:sql", "ExecContext", "warn:sql",
                                           "Rollback", "error:rollback",
                                           "Commit", "error:commit"}
            /\ \A id \in DOMAIN txns : ~(txns[id].owner = p /\ txns[id].att = a)
            /\ \A v \in visible : ~(v[1] = p /\ v[2] = a)
            /\ k >= n + 1
            /\ log[p][n + 1] = Event("error:begin", a, 0, 0, e)
            /\ IF isRetryableError(Trace(e))
               THEN /\ i[p] >= a + 1
                    /\ \A m \in Evs(p, "error:exec") : log[p][m].att # a
                    /\ k = n + 1 =>
                          \/ pc[p] = "loop" /\ i[p] = a + 1 /\ ret[p] = NoRet
                          \/ /\ pc[p] = "done"
                             /\ a = defaultMaxRetry - 1
                             /\ ret[p] = RetExecFailed(sqls[p], Trace(e))
                    /\ k > n + 1 =>
                          /\ a + 1 < defaultMaxRetry
                          /\ log[p][n + 2] = Event("warn:retry", a + 1, 0, 0, NoErr)
                          /\ k >= n + 3
                          /\ log[p][n + 3] = Event("sleep", a + 1, retryTimeout, 0, NoErr)
               ELSE /\ k = n + 2
                    /\ log[p][n + 2] = Event("error:exec", a, 0, 0, Trace(e))
                    /\ pc[p] = "done"
                    /\ i[p] = a
                    /\ ret[p] = RetTrace(Trace(e))

\* BeginTx failed with a Transient error in the first attempt and with a
\* Fatal error in the second, which ExecWithRetry has returned
C20_Witness ==
    /\ pc[Main] = "done"
    /\ ret[Main].tag = "trace"
    /\ \E n, m \in Evs(Main, "BeginTx") :
          /\ log[Main][n].att = 0
          /\ log[Main][n].e # NoErr
          /\ isRetryableError(log[Main][n].e)
          /\ log[Main][m].att = 1
          /\ log[Main][m].e # NoErr
          /\ ~isRetryableError(log[Main][m].e)

====
